---- MODULE Spec2Model ----
(***************************************************************************)
(* Model of cowidev.vax.incremental.china: China.export() and the two page *)
(* walks it runs (read, read_complete), the merge of their frames and the  *)
(* attach onto the persisted dataset.                                      *)
(*                                                                         *)
(* A frame (pandas DataFrame) is a sequence of rows; a row is a record     *)
(* whose domain is the set of columns it has. The web is an input: the     *)
(* listing is drawn when the index page is read, the text of a page when   *)
(* the page is navigated to, and every driver call may fail.               *)
(***************************************************************************)
EXTENDS Integers, Sequences, FiniteSets, TLC

(* ------------------------------ bounds --------------------------------- *)
\* longest listing the incremental index page serves
MaxLinks == 3
\* most li>a elements of the complete-bulletin index page
MaxElems == 4
\* decimal places of a numeral group's text
FracDigits == 1
\* most captures one complete page lacks
MaxAbsent == 1
\* decimal places of the numeral groups _estimate_metric is applied to on its own
FineDigits == 5
\* largest 亿 group, a whole number, it is applied to
MaxYi == 3
\* largest 万 group it is applied to, in units of 1/FineScale
MaxWanUnits == 29

(* ------------------------- program constants --------------------------- *)
num_links_complete == 3
\* the year _parse_data_complete writes into every date
CompleteYear == 2022

Years == {CompleteYear - 1, CompleteYear}
Months == {1}
Days == {1, 2}

location == "China"
vaccine == "CanSino, Sinopharm/Beijing, Sinopharm/Wuhan, Sinovac, ZF2001"
source_url == <<"list_gzbd", 0>>
source_url_complete == <<"new_list", 0>>

\* hrefs of the two index pages' links
Href(i) == <<"yqjzqk", i>>
HrefComplete(j) == <<"s2906", j>>

(* ------------------------------ values --------------------------------- *)
\* a pattern that did not match / a numeral group absent from the text
NoMatch == <<>>
\* a column a row does not have, after pd.concat aligned the columns
NaN == 0 - 1
\* what loadWatermark gives on a dataset with no rows
NoHistory == 0

\* float(): a numeral group is a fixed-point text <<units, scale>>, its value
\* units / scale, the scale a power of ten no greater than 1e8
FracScale == 10 ^ FracDigits
Numeral(n) == <<n * FracScale, FracScale>>
\* the "N万" numerals incremental pages carry
WanTexts == {<<130, "wan">>}
\* the "N亿" and "N万" numeral groups complete pages carry
YiGroups == {Numeral(1)}
WanGroups == {Numeral(1500)}

(* -------------------------- cowidev.utils.clean ------------------------ *)
\* clean_date / extract_clean_date: the ISO date of the captured components;
\* ISO strings order as these numbers do
clean_date(y, m, d) == y * 10000 + m * 100 + d

extract_clean_date(t) == clean_date(t[1], t[2], t[3])

\* clean_count: the digits of the captured text, the magnitude word stripped
clean_count(t) == t[1]

Dates == {clean_date(y, m, d) : y \in Years, m \in Months, d \in Days}

(* ------------------------------ frames --------------------------------- *)
\* df.date as a set, for isin
DateSet(df) == {df[n].date : n \in 1..Len(df)}

\* df.empty
Empty(df) == df = <<>>

\* a row widened to the columns cols, NaN where it has none
Align(r, cols) == [c \in cols |-> IF c \in DOMAIN r THEN r[c] ELSE NaN]

ColumnsOf(df) == UNION {DOMAIN df[n] : n \in 1..Len(df)}

\* pd.concat([a, b]): the rows of a then those of b, over the union of columns
Concat(a, b) ==
    LET cols == ColumnsOf(a) \cup ColumnsOf(b)
    IN  [n \in 1..(Len(a) + Len(b)) |->
            IF n <= Len(a) THEN Align(a[n], cols) ELSE Align(b[n - Len(a)], cols)]

\* df.assign(col=v) on one row
Assign(r, col, v) == [c \in (DOMAIN r) \cup {col} |-> IF c = col THEN v ELSE r[c]]

pipe_metadata(df) == [n \in 1..Len(df) |-> Assign(df[n], "location", location)]

pipe_vaccine(df) == [n \in 1..Len(df) |-> Assign(df[n], "vaccine", vaccine)]

pipeline(df) == pipe_vaccine(pipe_metadata(df))

(* ------------------------------ pages ---------------------------------- *)
\* "截至Y年M月D日" of an incremental page, or no such text
DateTexts == {NoMatch} \cup {<<y, m, d>> : y \in Years, m \in Months, d \in Days}

\* the index page of the incremental bulletins: the date text of each listed page
Listings == UNION {[1..n -> DateTexts] : n \in 0..MaxLinks}

\* the index page of the complete bulletins: its li>a elements, each with
\* whether its text matches regex_complete["title"] and its href; the k-th
\* titled element links to bulletin k, the others link elsewhere
Titled(b, n) == Cardinality({m \in 1..n : b[m]})

Elems(b) ==
    [n \in 1..Len(b) |->
        [title |-> b[n],
         href |-> IF b[n] THEN HrefComplete(Titled(b, n)) ELSE <<"other", n>>]]

ElemLists == {Elems(b) : b \in UNION {[1..n -> BOOLEAN] : n \in 0..MaxElems}}

\* the two numeral groups of one phrase of a complete page, each present or not
GroupPairs == ({NoMatch} \cup YiGroups) \X ({NoMatch} \cup WanGroups)

\* how many of a complete page's captures are absent
Absent(t) ==
    Cardinality({p \in {"doses", "people", "fully", "boosters"} : t[p][1] = NoMatch})
    + Cardinality({p \in {"doses", "people", "fully", "boosters"} : t[p][2] = NoMatch})
    + (IF t.asof = NoMatch THEN 1 ELSE 0)

\* xw_box text of a complete page: the "截至M月D日" of the doses phrase and the
\* numeral groups of the four phrases
CompleteTextsWithin ==
    {t \in [asof : {NoMatch} \cup (Months \X Days), doses : GroupPairs,
            people : GroupPairs, fully : GroupPairs, boosters : GroupPairs] :
        Absent(t) <= MaxAbsent}

\* the same set, enumerated once
CompleteTexts == UNION {{t} : t \in CompleteTextsWithin}

\* xw_box text of an incremental page whose date text is dt
IncrementalTexts(dt) ==
    [date : {dt}, total_vaccinations : {NoMatch} \cup WanTexts]

(* ----------------------------- extraction ------------------------------ *)
\* _parse_data: a regex of the incremental page does not match
_parse_data_fails(text) ==
    text.date = NoMatch \/ text.total_vaccinations = NoMatch

\* _parse_data: the row of an incremental page
_parse_data(text, url) ==
    [date |-> extract_clean_date(text.date),
     total_vaccinations |-> clean_count(text.total_vaccinations),
     source_url |-> url]

\* "([\d\.]+)亿([\d\.]+)万": both numeral groups are in the text
Matches(pair) == pair[1] # NoMatch /\ pair[2] # NoMatch

\* regex_complete["doses"]: the as-of day and both numeral groups
MatchesDoses(text) == text.asof # NoMatch /\ Matches(text.doses)

\* _parse_data_complete: re.search gave None for one of the four patterns
_parse_data_complete_fails(text) ==
    \/ ~MatchesDoses(text)
    \/ ~Matches(text.people)
    \/ ~Matches(text.fully)
    \/ ~Matches(text.boosters)

\* int(float(position_1) * 1e8 + float(position_2) * 1e4); the first product
\* is whole for a text of up to 8 decimal places, the sum is cut to a whole
_estimate_metric(position_1, position_2) ==
    position_1[1] * (100000000 \div position_1[2])
    + (position_2[1] * 10000) \div position_2[2]

\* _parse_data_complete: the row of a complete page
_parse_data_complete(text, url) ==
    [total_vaccinations |-> _estimate_metric(text.doses[1], text.doses[2]),
     people_vaccinated |-> _estimate_metric(text.people[1], text.people[2]),
     people_fully_vaccinated |-> _estimate_metric(text.fully[1], text.fully[2]),
     total_boosters |-> _estimate_metric(text.boosters[1], text.boosters[2]),
     date |-> clean_date(CompleteYear, text.asof[1], text.asof[2]),
     source_url |-> url]

\* the comparison of line 37 written as a strict one
AlreadyKnown_Strict(date, watermark) == date < watermark

\* read, line 37: data_["date"] <= last_update
AlreadyKnown(date, watermark) == date <= watermark

\* _get_links_complete: the hrefs of the elements whose text matches the title
RECURSIVE _get_links_complete(_)
_get_links_complete(es) ==
    IF es = <<>> THEN <<>>
    ELSE (IF Head(es).title THEN <<Head(es).href>> ELSE <<>>)
         \o _get_links_complete(Tail(es))

\* _get_links: the href of every element
_get_links(l) == [n \in 1..Len(l) |-> Href(n)]

\* the loop of line 61 over links, without the slice
FirstLinks_All(ls) == ls

\* links[: self.num_links_complete]
FirstLinks(ls) == SubSeq(ls, 1, IF Len(ls) < num_links_complete THEN Len(ls) ELSE num_links_complete)

(* ------------------------- merge and attach ---------------------------- *)
\* export, lines 111-114: the pipeline, on a frame that has rows
Transform(frame) == IF Empty(frame) THEN frame ELSE pipeline(frame)

\* df_complete.date read whether or not df has rows: it raises on every
\* complete frame built from no records
merge_fails_AnyEmpty(frame, frame_complete) == Empty(frame_complete)

\* export, line 119: df_complete.date on a frame built from no records, which
\* has no columns, raises
merge_fails(frame, frame_complete) == ~Empty(frame) /\ Empty(frame_complete)

\* the merge without the mask of line 119: every incremental row is kept
merge_KeepsIncremental(frame, frame_complete) ==
    LET a == Transform(frame)
        c == Transform(frame_complete)
    IN  IF Empty(a) THEN c ELSE Concat(c, a)

\* the merge without the branch of lines 116-117: with no incremental rows
\* the frame stays the empty one
merge_ForgetsComplete(frame, frame_complete) ==
    LET a == Transform(frame)
        c == Transform(frame_complete)
        msk(r) == r.date \notin DateSet(c)
    IN  IF Empty(a) THEN a ELSE Concat(c, SelectSeq(a, msk))

\* export, lines 116-120: the frame handed to export_datafile
merge(frame, frame_complete) ==
    LET a == Transform(frame)
        c == Transform(frame_complete)
        msk(r) == r.date \notin DateSet(c)
    IN  IF Empty(a) THEN c ELSE Concat(c, SelectSeq(a, msk))

\* an attach that appends the new rows to the rows on file
attach_Append(frame, current) == Concat(frame, current)

\* DatasetStore.attach: the new rows, then the rows on file whose date the new
\* rows do not cover
attach(frame, current) ==
    LET kept(r) == r.date \notin DateSet(frame)
    IN  Concat(frame, SelectSeq(current, kept))

\* export as a function of the two streams and the dataset on file
reconcile(frame, frame_complete, current) ==
    attach(merge(frame, frame_complete), current)

\* DatasetStore.loadWatermark: load_datafile().date.max()
load_watermark(current) ==
    IF Empty(current) THEN NoHistory
    ELSE CHOOSE d \in DateSet(current) : \A e \in DateSet(current) : e <= d

(* ------------------------------- state --------------------------------- *)
VARIABLES
    dataset,        \* the canonical dataset on file (vaccinations/.../China.csv)
    pc,             \* where export() is
    err,            \* the exception export() ended with, or "none"
    last_update,    \* export: the watermark
    sessions,       \* browser sessions that are open
    opened,         \* sessions get_driver has opened in this export()
    driver,         \* the session of the with block being executed
    nav,            \* the urls driver.get was called with in this export()
    elem_text,      \* text of the xw_box element found last
    listing,        \* web: date text of each page the incremental index lists
    links,          \* read: links
    i,              \* read: position of the for loop in links
    data,           \* read: data
    df,             \* export: df, as read() returned it
    elems,          \* web: li>a elements of the complete index
    links_complete, \* read_complete: links[: num_links_complete]
    j,              \* read_complete: position of the for loop
    records,        \* read_complete: records
    df_complete,    \* export: df_complete
    df_merged,      \* export: df after the merge
    returned,       \* which of read, read_complete have returned
    writes,         \* export_datafile calls in this export()
    dataset0        \* the dataset on file when this export() began

read_locals == <<listing, links, i, data>>
complete_locals == <<elems, links_complete, j, records>>
export_locals == <<last_update, df, df_complete, df_merged>>
browser == <<sessions, opened, driver>>
store == <<dataset, dataset0, writes>>
vars == <<pc, err, returned, nav, elem_text, read_locals, complete_locals,
          export_locals, browser, store>>

\* a row already on file before the first export() of a behaviour
PriorRow(d) ==
    [date |-> d, total_vaccinations |-> 100, people_vaccinated |-> NaN,
     people_fully_vaccinated |-> NaN, total_boosters |-> NaN,
     source_url |-> Href(0), location |-> location, vaccine |-> vaccine]

RECURSIVE SortedRows(_)
\* the rows of the dates S, oldest first
SortedRows(S) ==
    IF S = {} THEN <<>>
    ELSE LET d == CHOOSE x \in S : \A y \in S : x <= y
         IN  <<PriorRow(d)>> \o SortedRows(S \ {d})

Init ==
    /\ dataset \in {SortedRows(S) : S \in SUBSET Dates}
    /\ dataset0 = dataset
    /\ pc = "export"
    /\ err = "none"
    /\ last_update = NoHistory
    /\ sessions = {}
    /\ opened = 0
    /\ driver = 0
    /\ nav = <<>>
    /\ elem_text = NoMatch
    /\ listing = <<>>
    /\ links = <<>>
    /\ i = 1
    /\ data = <<>>
    /\ df = <<>>
    /\ elems = <<>>
    /\ links_complete = <<>>
    /\ j = 1
    /\ records = <<>>
    /\ df_complete = <<>>
    /\ df_merged = <<>>
    /\ returned = {}
    /\ writes = 0

(* ----------------------- exceptions and sessions ----------------------- *)
\* leaving a with block: the session it opened is quit
ExitWith(open, d) == open \ {d}

\* an exception leaves export(): its frames and their locals are gone
Unwind(e) ==
    /\ pc' = "error"
    /\ err' = e
    /\ listing' = <<>> /\ links' = <<>> /\ i' = 1 /\ data' = <<>>
    /\ elems' = <<>> /\ links_complete' = <<>> /\ j' = 1 /\ records' = <<>>
    /\ last_update' = NoHistory
    /\ df' = <<>> /\ df_complete' = <<>> /\ df_merged' = <<>>
    /\ driver' = 0
    /\ UNCHANGED <<returned, opened, store>>

\* the exception leaves a block that is no with block: the session stays open
RaiseInWith_NoExit(e) ==
    /\ sessions' = sessions
    /\ Unwind(e)

\* an exception raised inside the with block of read or read_complete
RaiseInWith(e) ==
    /\ sessions' = ExitWith(sessions, driver)
    /\ Unwind(e)

\* an exception raised in export() outside any with block
Raise(e) ==
    /\ sessions' = sessions
    /\ Unwind(e)

\* get_driver: a session is opened and the with block is entered
GetDriver(next) ==
    /\ opened' = opened + 1
    /\ driver' = opened + 1
    /\ sessions' = sessions \cup {opened + 1}
    /\ pc' = next
    /\ UNCHANGED <<err, returned, nav, elem_text, read_locals, complete_locals,
                   export_locals, store>>

(* ------------------------------- export -------------------------------- *)
\* line 107: last_update = self.load_datafile().date.max()
Export_LoadDatafile ==
    /\ pc = "export"
    /\ last_update' = load_watermark(dataset)
    /\ pc' = "read"
    /\ UNCHANGED <<err, returned, nav, elem_text, read_locals, complete_locals,
                   df, df_complete, df_merged, browser, store>>

(* -------------------------------- read --------------------------------- *)
\* line 31: with get_driver(...) as driver
Read_GetDriver ==
    /\ pc = "read"
    /\ GetDriver("read_get")

\* line 31: the session cannot be started
Read_GetDriver_Error ==
    /\ pc = "read"
    /\ nav' = nav
    /\ elem_text' = elem_text
    /\ Raise("DriverError")

\* lines 32-34: the index page is loaded and its links are collected
Read_GetLinks ==
    /\ pc = "read_get"
    /\ nav' = Append(nav, source_url)
    /\ \E l \in Listings :
        /\ listing' = l
        /\ links' = _get_links(l)
    /\ pc' = "read_for"
    /\ UNCHANGED <<err, returned, elem_text, i, data, complete_locals,
                   export_locals, browser, store>>

\* lines 32, 34: driver.get times out, or the element lookup fails
Read_GetLinks_Error ==
    /\ pc = "read_get"
    /\ nav' = Append(nav, source_url)
    /\ elem_text' = elem_text
    /\ \E e \in {"ScrapeTimeoutError", "DriverError"} : RaiseInWith(e)

\* the failure is caught and the same link is tried again
Read_Page_DriverError_Retry ==
    /\ pc = "read_for"
    /\ i <= Len(links)
    /\ nav' = Append(nav, links[i])
    /\ \E e \in {"ScrapeTimeoutError", "DriverError"} : err' = e
    /\ UNCHANGED <<pc, returned, elem_text, read_locals, complete_locals,
                   export_locals, browser, store>>

\* lines 43-44 under line 36: driver.get or find_element_by_id fails
Read_Page_DriverError ==
    /\ pc = "read_for"
    /\ i <= Len(links)
    /\ nav' = Append(nav, links[i])
    /\ elem_text' = elem_text
    /\ \E e \in {"ScrapeTimeoutError", "DriverError"} : RaiseInWith(e)

\* the page that does not parse is skipped and the walk goes on
Read_Page_ParseError_Skip ==
    /\ pc = "read_for"
    /\ i <= Len(links)
    /\ nav' = Append(nav, links[i])
    /\ \E text \in IncrementalTexts(listing[i]) :
        /\ _parse_data_fails(text)
        /\ elem_text' = text
    /\ i' = i + 1
    /\ UNCHANGED <<pc, err, returned, listing, links, data, complete_locals,
                   export_locals, browser, store>>

\* lines 45-48 under line 36: a pattern does not match the page
Read_Page_ParseError ==
    /\ pc = "read_for"
    /\ i <= Len(links)
    /\ nav' = Append(nav, links[i])
    /\ \E text \in IncrementalTexts(listing[i]) :
        /\ _parse_data_fails(text)
        /\ elem_text' = text
    /\ RaiseInWith("ParseError")

\* line 38 written as continue: the page already known is passed over
Read_Page_Break_Continue ==
    /\ pc = "read_for"
    /\ i <= Len(links)
    /\ nav' = Append(nav, links[i])
    /\ \E text \in IncrementalTexts(listing[i]) :
        /\ ~_parse_data_fails(text)
        /\ AlreadyKnown(_parse_data(text, links[i]).date, last_update)
        /\ elem_text' = text
    /\ i' = i + 1
    /\ UNCHANGED <<pc, err, returned, listing, links, data, complete_locals,
                   export_locals, browser, store>>

\* line 39 moved above line 37: the row is appended before its date is tested
Read_Page_Break_Keeps ==
    /\ pc = "read_for"
    /\ i <= Len(links)
    /\ nav' = Append(nav, links[i])
    /\ \E text \in IncrementalTexts(listing[i]) :
        /\ ~_parse_data_fails(text)
        /\ AlreadyKnown(_parse_data(text, links[i]).date, last_update)
        /\ elem_text' = text
        /\ data' = Append(data, _parse_data(text, links[i]))
    /\ pc' = "read_return"
    /\ UNCHANGED <<err, returned, listing, links, i, complete_locals,
                   export_locals, browser, store>>

\* lines 36-38: the page is at or before the watermark
Read_Page_Break ==
    /\ pc = "read_for"
    /\ i <= Len(links)
    /\ nav' = Append(nav, links[i])
    /\ \E text \in IncrementalTexts(listing[i]) :
        /\ ~_parse_data_fails(text)
        /\ AlreadyKnown(_parse_data(text, links[i]).date, last_update)
        /\ elem_text' = text
    /\ pc' = "read_return"
    /\ UNCHANGED <<err, returned, read_locals, complete_locals,
                   export_locals, browser, store>>

\* the loop that does not move on: the link just scraped is scraped again
Read_Page_Append_SameLink ==
    /\ pc = "read_for"
    /\ i <= Len(links)
    /\ Len(data) < Len(links)
    /\ nav' = Append(nav, links[i])
    /\ \E text \in IncrementalTexts(listing[i]) :
        /\ ~_parse_data_fails(text)
        /\ ~AlreadyKnown(_parse_data(text, links[i]).date, last_update)
        /\ elem_text' = text
        /\ data' = Append(data, _parse_data(text, links[i]))
    /\ UNCHANGED <<pc, err, returned, listing, links, i, complete_locals,
                   export_locals, browser, store>>

\* lines 36-39: the page is newer than the watermark
Read_Page_Append ==
    /\ pc = "read_for"
    /\ i <= Len(links)
    /\ nav' = Append(nav, links[i])
    /\ \E text \in IncrementalTexts(listing[i]) :
        /\ ~_parse_data_fails(text)
        /\ ~AlreadyKnown(_parse_data(text, links[i]).date, last_update)
        /\ elem_text' = text
        /\ data' = Append(data, _parse_data(text, links[i]))
    /\ i' = i + 1
    /\ UNCHANGED <<pc, err, returned, listing, links, complete_locals,
                   export_locals, browser, store>>

\* read() that also attaches what it collected before it returns
Read_Return_Exports ==
    /\ pc = "read_return" \/ (pc = "read_for" /\ i > Len(links))
    /\ sessions' = ExitWith(sessions, driver)
    /\ driver' = 0
    /\ df' = data
    /\ dataset' = attach(Transform(data), dataset)
    /\ writes' = writes + 1
    /\ listing' = <<>> /\ links' = <<>> /\ i' = 1 /\ data' = <<>>
    /\ returned' = returned \cup {"read"}
    /\ pc' = "read_complete"
    /\ UNCHANGED <<err, nav, elem_text, complete_locals, last_update,
                   df_complete, df_merged, opened, dataset0>>

\* line 40, leaving the with block: return pd.DataFrame(data)
Read_Return ==
    /\ pc = "read_return" \/ (pc = "read_for" /\ i > Len(links))
    /\ sessions' = ExitWith(sessions, driver)
    /\ driver' = 0
    /\ df' = data
    /\ listing' = <<>> /\ links' = <<>> /\ i' = 1 /\ data' = <<>>
    /\ returned' = returned \cup {"read"}
    /\ pc' = "read_complete"
    /\ UNCHANGED <<err, nav, elem_text, complete_locals, last_update,
                   df_complete, df_merged, opened, store>>

(* ---------------------------- read_complete ---------------------------- *)
\* line 57: with get_driver(...) as driver
Complete_GetDriver ==
    /\ pc = "read_complete"
    /\ GetDriver("complete_get")

\* line 57: the session cannot be started
Complete_GetDriver_Error ==
    /\ pc = "read_complete"
    /\ nav' = nav
    /\ elem_text' = elem_text
    /\ Raise("DriverError")

\* lines 58-59, 66: the index page is loaded and its li>a elements found
Complete_FindElements ==
    /\ pc = "complete_get"
    /\ nav' = Append(nav, source_url_complete)
    /\ elems' \in ElemLists
    /\ pc' = "complete_links"
    /\ UNCHANGED <<err, returned, elem_text, read_locals, links_complete, j,
                   records, export_locals, browser, store>>

\* lines 58, 66: driver.get times out, or the element lookup fails
Complete_FindElements_Error ==
    /\ pc = "complete_get"
    /\ nav' = Append(nav, source_url_complete)
    /\ elem_text' = elem_text
    /\ \E e \in {"ScrapeTimeoutError", "DriverError"} : RaiseInWith(e)

\* lines 60, 67: the hrefs of the titled elements
Complete_GetLinks ==
    /\ pc = "complete_links"
    /\ links_complete' = _get_links_complete(elems)
    /\ elems' = <<>>
    /\ pc' = "complete_for"
    /\ UNCHANGED <<err, returned, nav, elem_text, read_locals, j, records,
                   export_locals, browser, store>>

\* lines 73-74 under line 62: driver.get or find_element_by_id fails
Complete_Page_DriverError ==
    /\ pc = "complete_for"
    /\ j <= Len(FirstLinks(links_complete))
    /\ nav' = Append(nav, links_complete[j])
    /\ elem_text' = elem_text
    /\ \E e \in {"ScrapeTimeoutError", "DriverError"} : RaiseInWith(e)

\* a numeral group that is absent counts as zero
ZeroFill(pair) ==
    <<IF pair[1] = NoMatch THEN Numeral(0) ELSE pair[1],
      IF pair[2] = NoMatch THEN Numeral(0) ELSE pair[2]>>

\* the page with an absent group yields a row all the same
Complete_Page_ParseError_ZeroFill ==
    /\ pc = "complete_for"
    /\ j <= Len(FirstLinks(links_complete))
    /\ nav' = Append(nav, links_complete[j])
    /\ \E text \in CompleteTexts :
        /\ _parse_data_complete_fails(text)
        /\ text.asof # NoMatch
        /\ elem_text' = text
        /\ records' = Append(records,
                _parse_data_complete(
                    [text EXCEPT !.doses = ZeroFill(@), !.people = ZeroFill(@),
                                 !.fully = ZeroFill(@), !.boosters = ZeroFill(@)],
                    links_complete[j]))
    /\ j' = j + 1
    /\ UNCHANGED <<pc, err, returned, read_locals, elems, links_complete,
                   export_locals, browser, store>>

\* lines 76-83 under line 62: a pattern does not match the page
Complete_Page_ParseError ==
    /\ pc = "complete_for"
    /\ j <= Len(FirstLinks(links_complete))
    /\ nav' = Append(nav, links_complete[j])
    /\ \E text \in CompleteTexts :
        /\ _parse_data_complete_fails(text)
        /\ elem_text' = text
    /\ RaiseInWith("ParseError")

\* line 62: records.append(self._parse_data_complete(driver, link))
Complete_Page_Append ==
    /\ pc = "complete_for"
    /\ j <= Len(FirstLinks(links_complete))
    /\ nav' = Append(nav, links_complete[j])
    /\ \E text \in CompleteTexts :
        /\ ~_parse_data_complete_fails(text)
        /\ elem_text' = text
        /\ records' = Append(records, _parse_data_complete(text, links_complete[j]))
    /\ j' = j + 1
    /\ UNCHANGED <<pc, err, returned, read_locals, elems, links_complete,
                   export_locals, browser, store>>

\* line 63, leaving the with block: return pd.DataFrame(records)
Complete_Return ==
    /\ pc = "complete_for"
    /\ j > Len(FirstLinks(links_complete))
    /\ sessions' = ExitWith(sessions, driver)
    /\ driver' = 0
    /\ df_complete' = records
    /\ elems' = <<>> /\ links_complete' = <<>> /\ j' = 1 /\ records' = <<>>
    /\ returned' = returned \cup {"read_complete"}
    /\ pc' = "merge"
    /\ UNCHANGED <<err, nav, elem_text, read_locals, last_update, df,
                   df_merged, opened, store>>

(* ------------------------ export: merge, attach ------------------------ *)
\* lines 111-120
Export_Merge ==
    /\ pc = "merge"
    /\ ~merge_fails(df, df_complete)
    /\ df_merged' = merge(df, df_complete)
    /\ pc' = "export_datafile"
    /\ UNCHANGED <<err, returned, nav, elem_text, read_locals, complete_locals,
                   last_update, df, df_complete, browser, store>>

\* line 119 raises
Export_Merge_Error ==
    /\ pc = "merge"
    /\ merge_fails(df, df_complete)
    /\ nav' = nav
    /\ elem_text' = elem_text
    /\ Raise("AttributeError")

\* line 122 without attach: the frame replaces the file
Export_Datafile_Overwrite ==
    /\ pc = "export_datafile"
    /\ dataset' = df_merged
    /\ writes' = writes + 1
    /\ pc' = "done"
    /\ UNCHANGED <<err, returned, nav, elem_text, read_locals, complete_locals,
                   export_locals, browser, dataset0>>

\* line 122: self.export_datafile(df, attach=True)
Export_Datafile ==
    /\ pc = "export_datafile"
    /\ dataset' = attach(df_merged, dataset)
    /\ writes' = writes + 1
    /\ pc' = "done"
    /\ UNCHANGED <<err, returned, nav, elem_text, read_locals, complete_locals,
                   export_locals, browser, dataset0>>

Next ==
    \/ Export_LoadDatafile
    \/ Read_GetDriver
    \/ Read_GetDriver_Error
    \/ Read_GetLinks
    \/ Read_GetLinks_Error
    \/ Read_Page_DriverError
    \/ Read_Page_ParseError
    \/ Read_Page_Break
    \/ Read_Page_Append
    \/ Read_Return
    \/ Complete_GetDriver
    \/ Complete_GetDriver_Error
    \/ Complete_FindElements
    \/ Complete_FindElements_Error
    \/ Complete_GetLinks
    \/ Complete_Page_DriverError
    \/ Complete_Page_ParseError
    \/ Complete_Page_Append
    \/ Complete_Return
    \/ Export_Merge
    \/ Export_Merge_Error
    \/ Export_Datafile

Spec == Init /\ [][Next]_vars

(* ------------------------- read() on its own --------------------------- *)
\* export() up to the return of read(), line 108
NextRead ==
    \/ Export_LoadDatafile
    \/ Read_GetDriver
    \/ Read_GetDriver_Error
    \/ Read_GetLinks
    \/ Read_GetLinks_Error
    \/ Read_Page_DriverError
    \/ Read_Page_ParseError
    \/ Read_Page_Break
    \/ Read_Page_Append
    \/ Read_Return

\* read() is one sequential thread: a statement that can be executed is
\* executed, and every driver call returns or raises within its timeout
SpecRead == Init /\ [][NextRead]_vars /\ WF_vars(NextRead)

(* ------------------ the parsing functions on their own ----------------- *)
FineScale == 10 ^ FineDigits

\* "N亿" groups that are whole numbers, and "N万" groups of FineDigits places
FineYiGroups == {<<n * FineScale, FineScale>> : n \in 0..MaxYi}
FineWanGroups == {<<n, FineScale>> : n \in 0..MaxWanUnits}

\* the complete pages that parse and carry the as-of day of the date text dt
CompleteTextsOf(dt) ==
    {t \in CompleteTexts :
        ~_parse_data_complete_fails(t) /\ t.asof = <<dt[2], dt[3]>>}

\* either the two numeral groups of one phrase, or one calendar day (listing)
\* with the text of a complete page published for that day (elem_text)
InitParse ==
    /\ pc \in {"estimate", "parse_day"}
    /\ \/ /\ pc = "estimate"
          /\ listing = <<>>
          /\ elem_text \in [doses : FineYiGroups \X FineWanGroups]
       \/ /\ pc = "parse_day"
          /\ listing \in {<<dt>> : dt \in DateTexts \ {NoMatch}}
          /\ elem_text \in CompleteTextsOf(listing[1])
    /\ dataset = <<>>
    /\ dataset0 = <<>>
    /\ err = "none"
    /\ last_update = NoHistory
    /\ sessions = {}
    /\ opened = 0
    /\ driver = 0
    /\ nav = <<>>
    /\ links = <<>>
    /\ i = 1
    /\ data = <<>>
    /\ df = <<>>
    /\ elems = <<>>
    /\ links_complete = <<>>
    /\ j = 1
    /\ records = <<>>
    /\ df_complete = <<>>
    /\ df_merged = <<>>
    /\ returned = {}
    /\ writes = 0

\* lines 70-71, 86: _estimate_metric on the two groups of the doses phrase
Estimate ==
    /\ pc = "estimate"
    /\ records' = <<[total_vaccinations |->
                        _estimate_metric(elem_text.doses[1], elem_text.doses[2])]>>
    /\ pc' = "estimated"
    /\ UNCHANGED <<err, returned, nav, elem_text, read_locals, elems,
                   links_complete, j, export_locals, browser, store>>

\* lines 45-49 and 85-92: the row of the incremental page and the row of the
\* complete page of one day
ParseSameDay ==
    /\ pc = "parse_day"
    /\ \E text \in IncrementalTexts(listing[1]) :
        /\ ~_parse_data_fails(text)
        /\ data' = <<_parse_data(text, Href(1))>>
    /\ records' = <<_parse_data_complete(elem_text, HrefComplete(1))>>
    /\ pc' = "parsed_day"
    /\ UNCHANGED <<err, returned, nav, elem_text, listing, links, i, elems,
                   links_complete, j, export_locals, browser, store>>

NextParse ==
    \/ Estimate
    \/ ParseSameDay

SpecParse == InitParse /\ [][NextParse]_vars

(* ------------------------- the incremental walk ------------------------ *)
\* every listed page carries a date, and the dates fall strictly down the listing
NewestFirst(l) ==
    /\ \A n \in 1..Len(l) : l[n] # NoMatch
    /\ \A n \in 1..(Len(l) - 1) :
        extract_clean_date(l[n]) > extract_clean_date(l[n + 1])

\* the step in which read() returns its frame to export()
ReadReturns == "read" \notin returned /\ "read" \in returned'

\* date and url of each row of a frame, in order
DatesAndUrls(frame) == [n \in 1..Len(frame) |-> <<frame[n].date, frame[n].source_url>>]

\* C1: on a listing whose dates fall strictly, d1 > ... > dn, with the watermark
\* equal to d_k, read() returns the rows of the pages d1..d_(k-1), one per page,
\* in listing order, and no other row.
C1_ReadReturnsPagesAboveWatermark ==
    [][(ReadReturns /\ NewestFirst(listing))
        => \A k \in 1..Len(listing) :
            extract_clean_date(listing[k]) = last_update
            => /\ DatesAndUrls(df')
                    = [n \in 1..(k - 1) |-> <<extract_clean_date(listing[n]), Href(n)>>]
               /\ \A n \in 1..(k - 1) :
                    /\ DOMAIN df'[n] = {"date", "total_vaccinations", "source_url"}
                    /\ df'[n].total_vaccinations \in {t[1] : t \in WanTexts}]_vars

\* C1 witness: the walk has stopped at the third page of a strictly falling
\* listing, whose date is the watermark, with the two pages above it collected
C1_Witness ==
    /\ pc = "read_return"
    /\ Len(listing) = 3
    /\ NewestFirst(listing)
    /\ extract_clean_date(listing[3]) = last_update
    /\ Len(data) = 2

(* ------------------------------ the merge ------------------------------ *)
\* the rows of a frame that carry the date d, in order
RowsOf(frame, d) == LET on(r) == r.date = d IN SelectSeq(frame, on)

\* a row of read_complete() with the location and the vaccine attached
CompleteRow(c) ==
    [date |-> c.date, total_vaccinations |-> c.total_vaccinations,
     people_vaccinated |-> c.people_vaccinated,
     people_fully_vaccinated |-> c.people_fully_vaccinated,
     total_boosters |-> c.total_boosters, source_url |-> c.source_url,
     location |-> "China",
     vaccine |-> "CanSino, Sinopharm/Beijing, Sinopharm/Wuhan, Sinovac, ZF2001"]

\* the rows read_complete() returned for the date d, as they are exported
CompleteRows(d) ==
    LET cs == RowsOf(df_complete, d) IN [n \in 1..Len(cs) |-> CompleteRow(cs[n])]

\* export() has built the frame it hands to export_datafile
Merged == pc \in {"export_datafile", "done"}

\* C2: in the frame export() builds for attach, the rows of a date that both
\* streams carry are the complete rows of that date, field for field, and no
\* row of the incremental stream for that date is among them.
C2_CompleteReplacesIncremental ==
    Merged =>
        \A d \in DateSet(df) \cap DateSet(df_complete) :
            RowsOf(df_merged, d) = CompleteRows(d)

\* C2 witness: the frame is built and some date is in both streams
C2_Witness ==
    /\ Merged
    /\ DateSet(df) \cap DateSet(df_complete) # {}

\* C3: after export() the dataset holds at most one row per date.
C3_OneRowPerDate ==
    pc = "done" =>
        \A m, n \in 1..Len(dataset) :
            dataset[m].date = dataset[n].date => m = n

\* C4: for a date that the complete stream and the dataset on file both carry,
\* the dataset after export() holds the complete rows of that date, field for
\* field, and not the row that was on file.
C4_CompleteReplacesPrior ==
    pc = "done" =>
        \A d \in DateSet(df_complete) \cap DateSet(dataset0) :
            RowsOf(dataset, d) = CompleteRows(d)

\* C4 witness: export() has ended and a date of the complete stream was on
\* file with other values
C4_Witness ==
    /\ pc = "done"
    /\ \E d \in DateSet(df_complete) \cap DateSet(dataset0) :
        RowsOf(dataset0, d) # CompleteRows(d)

\* C5: running the merge and the attach once more, with the same two streams,
\* on the dataset export() has written leaves that dataset as it is.
C5_ReconcileIdempotent ==
    pc = "done" => reconcile(df, df_complete, dataset) = dataset

\* C5 witness: export() has written rows of both streams over a dataset that
\* had rows
C5_Witness ==
    /\ pc = "done"
    /\ df # <<>>
    /\ df_complete # <<>>
    /\ dataset0 # <<>>
    /\ dataset # dataset0

(* ------------------------ failures and sessions ------------------------ *)
\* C6: export_datafile is called at most once, after read() and
\* read_complete() have returned and the merge is computed; when export()
\* ends in an error it was not called and the dataset is as it was.
C6_WriteOnceAfterMerge ==
    /\ writes <= 1
    /\ writes = 1 => (pc = "done" /\ returned = {"read", "read_complete"})
    /\ pc # "done" => (writes = 0 /\ dataset = dataset0)

\* C6 witness: read() has returned, a page of read_complete() failed to parse
\* and export() ended in that error
C6_Witness ==
    /\ pc = "error"
    /\ err = "ParseError"
    /\ returned = {"read"}
    /\ dataset # <<>>

\* C7: when export() has ended, normally or in an error, no session is open.
C7_NoSessionLeftOpen == pc \in {"done", "error"} => sessions = {}

\* C7 witness: export() ended in an error raised inside the second with block
C7_Witness ==
    /\ pc = "error"
    /\ opened = 2
    /\ err \in {"ParseError", "ScrapeTimeoutError"}

\* the page found last is an incremental page / a complete page
IncrementalPage == "date" \in DOMAIN elem_text
CompletePage == "asof" \in DOMAIN elem_text

\* C8: when a page read() visits does not parse, read() has not returned and
\* does not return: export() has ended in the parse error, the page that did
\* not parse is the last one navigated to, and nothing was written.
C8_ReadFailsFast ==
    (IncrementalPage /\ _parse_data_fails(elem_text)) =>
        /\ pc = "error"
        /\ err = "ParseError"
        /\ "read" \notin returned
        /\ df = <<>>
        /\ nav[Len(nav)][1] = "yqjzqk"
        /\ writes = 0

\* C8 witness: the second page of the walk did not parse, after the first
\* page gave a row
C8_Witness ==
    /\ IncrementalPage
    /\ _parse_data_fails(elem_text)
    /\ Len(nav) = 3

\* a numeral group of one of the four phrases is absent from the text
GroupAbsent(text) ==
    \E p \in {"doses", "people", "fully", "boosters"} :
        text[p][1] = NoMatch \/ text[p][2] = NoMatch

\* the values a count of a complete row can take, both groups being present
Counts ==
    {(b[1] \div FracScale) * 100000000 + (s[1] \div FracScale) * 10000 :
        b \in YiGroups, s \in WanGroups}

\* the four counts of a row are there and come from two numeral groups each
FourCounts(r) ==
    \A m \in {"total_vaccinations", "people_vaccinated",
              "people_fully_vaccinated", "total_boosters"} :
        m \in DOMAIN r /\ r[m] \in Counts

\* C9: when a numeral group of any of the four counts is absent from a page
\* read_complete() visits, read_complete() ends in a parse error and returns
\* nothing; every row it collects or returns has its four counts, each from
\* both of its numeral groups.
C9_CompleteNeedsBothGroups ==
    /\ (CompletePage /\ GroupAbsent(elem_text)) =>
            /\ pc = "error"
            /\ err = "ParseError"
            /\ "read_complete" \notin returned
            /\ df_complete = <<>>
    /\ \A n \in 1..Len(records) : FourCounts(records[n])
    /\ \A n \in 1..Len(df_complete) : FourCounts(df_complete[n])

\* C9 witness: the second complete page lacked a numeral group, after the
\* first gave a row
C9_Witness ==
    /\ CompletePage
    /\ GroupAbsent(elem_text)
    /\ Len(nav) >= 2
    /\ nav[Len(nav)] = HrefComplete(2)

DriverErrors == {"ScrapeTimeoutError", "DriverError"}

\* a step taken after a driver call failed navigates nowhere and opens nothing
QuietAfterDriverError ==
    err \in DriverErrors => (nav' = nav /\ opened' = opened)

\* C10: once a navigation or an element lookup has failed, export() has ended
\* in that error, and no url is navigated to and no session opened after it.
C10_NoRetryAfterDriverError ==
    /\ [](err \in DriverErrors => pc = "error")
    /\ [][QuietAfterDriverError]_vars

\* C10 witness: a page of the incremental walk failed to load and export()
\* ended without the complete index ever being navigated to
C10_Witness ==
    /\ pc = "error"
    /\ err = "ScrapeTimeoutError"
    /\ Len(nav) >= 2
    /\ nav[Len(nav)][1] = "yqjzqk"
    /\ \A n \in 1..Len(nav) : nav[n] # source_url_complete

(* --------------------------- pages navigated --------------------------- *)
\* the urls of a walk of read() that went down to the n-th listed page
WalkTo(n) == <<source_url>> \o [m \in 1..n |-> Href(m)]

\* read() is in its loop, or has left it by the break
InWalk == pc \in {"read_for", "read_return"}

\* a step taken after read() returned navigates to no incremental page
NoIncrementalPageAfterRead ==
    ("read" \in returned /\ nav' # nav) =>
        nav'[Len(nav')][1] \in {"new_list", "s2906"}

\* C11, as claimed: on a listing whose dates fall strictly, with the watermark
\* equal to d_k, the walk that has stopped navigated to the index and to the
\* pages of d1..d_(k-1) only, not to the page of d_k.
C11_StopsBeforeWatermarkPage ==
    (pc = "read_return" /\ NewestFirst(listing)) =>
        \A k \in 1..Len(listing) :
            extract_clean_date(listing[k]) = last_update => nav = WalkTo(k - 1)

\* C11, amended: on such a listing the walk navigates to the pages of d1..d_k
\* in order, the page of d_k included (its date is read from the page), stops
\* there, and the pages of d_(k+1)..d_n are never navigated to.
C11_StopsAtWatermarkPage ==
    /\ []((InWalk /\ NewestFirst(listing)) =>
            \A k \in 1..Len(listing) :
                extract_clean_date(listing[k]) = last_update =>
                    /\ Len(nav) <= k + 1
                    /\ nav = SubSeq(WalkTo(k), 1, Len(nav))
                    /\ pc = "read_return" => nav = WalkTo(k))
    /\ [][NoIncrementalPageAfterRead]_vars

\* C11 witness: on a strictly falling listing of three pages the walk stopped
\* at the second, whose date is the watermark; the third was not navigated to
C11_Witness ==
    /\ pc = "read_return"
    /\ Len(listing) = 3
    /\ NewestFirst(listing)
    /\ extract_clean_date(listing[2]) = last_update
    /\ nav = WalkTo(2)

(* ------------------------------ sessions ------------------------------- *)
\* read_complete() is inside its with block
InCompleteWalk == pc \in {"complete_get", "complete_links", "complete_for"}

\* C12: in one export() get_driver is entered once: one session is opened, and
\* the complete walk runs inside the session the incremental walk ran in.
C12_SessionAcquiredOnce ==
    /\ opened <= 1
    /\ InCompleteWalk => driver = 1

(* ----------------------------- empty streams --------------------------- *)
\* read() and read_complete() both returned a frame with no rows
NothingNew ==
    /\ pc \in {"merge", "export_datafile", "done"}
    /\ df = <<>>
    /\ df_complete = <<>>

\* with nothing new, the merge gives the empty frame without raising
MergeOfNothing ==
    (pc = "merge" /\ NothingNew) => (pc' = "export_datafile" /\ df_merged' = <<>>)

\* with nothing new, export_datafile leaves the dataset as it is and export() ends
AttachOfNothing ==
    (pc = "export_datafile" /\ NothingNew) => (pc' = "done" /\ dataset' = dataset)

\* C13: when read() and read_complete() both return no rows, export() goes
\* through the merge and export_datafile without an error, and the dataset
\* after the run is the dataset before it.
C13_NothingNewLeavesDataset ==
    /\ [](NothingNew => (err = "none" /\ dataset = dataset0))
    /\ [][MergeOfNothing]_vars
    /\ [][AttachOfNothing]_vars

\* C13 witness: the first listed page was at or before the watermark, the
\* complete index had no titled link, and export() ended over a dataset with rows
C13_Witness ==
    /\ pc = "done"
    /\ NothingNew
    /\ nav = <<source_url, Href(1), source_url_complete>>
    /\ dataset0 # <<>>
    /\ dataset = dataset0
    /\ writes = 1

(* --------------------------- the complete walk ------------------------- *)
\* the urls navigated to that are neither an index page nor an incremental page
CompleteVisited ==
    LET page(u) == u[1] \notin {"list_gzbd", "yqjzqk", "new_list"}
    IN  SelectSeq(nav, page)

\* the hrefs of the elements of the index whose text matches the title, in order
TitledHrefs(es) ==
    LET titled(e) == e.title
        ts == SelectSeq(es, titled)
    IN  [n \in 1..Len(ts) |-> ts[n].href]

Min(a, b) == IF a < b THEN a ELSE b

\* the step in which read_complete() returns its frame to export()
CompleteReturns == "read_complete" \notin returned /\ "read_complete" \in returned'

\* the links read_complete() walks are those of the titled elements
LinksAreTitled == pc = "complete_links" => links_complete' = TitledHrefs(elems)

\* read_complete() returns one row per link among the first K, in order
ReturnsFirstLinks ==
    CompleteReturns =>
        LET k == Min(num_links_complete, Len(links_complete))
        IN  /\ CompleteVisited = SubSeq(links_complete, 1, k)
            /\ Len(df_complete') = k
            /\ \A n \in 1..k : df_complete'[n].source_url = links_complete[n]

\* C14: read_complete() walks the links of the titled elements of the index,
\* in index order, the first min(K, m) of the m there are and no more than K;
\* it collects one row per page visited and never navigates to the href of an
\* element that is not titled. The watermark plays no part.
C14_CompleteVisitsFirstK ==
    /\ [](\A n \in 1..Len(nav) : nav[n][1] # "other")
    /\ [](pc = "complete_for" =>
            /\ j - 1 <= Min(num_links_complete, Len(links_complete))
            /\ CompleteVisited = SubSeq(links_complete, 1, j - 1)
            /\ Len(records) = j - 1
            /\ \A n \in 1..(j - 1) : records[n].source_url = links_complete[n])
    /\ [][LinksAreTitled]_vars
    /\ [][ReturnsFirstLinks]_vars

\* C14 witness: the index has more titled links than K, the first K were
\* visited and gave a row each, and the walk is about to return
C14_Witness ==
    /\ pc = "complete_for"
    /\ Len(links_complete) > num_links_complete
    /\ j = num_links_complete + 1
    /\ Len(records) = num_links_complete
    /\ CompleteVisited = SubSeq(links_complete, 1, num_links_complete)

(* ------------------------ an empty complete stream --------------------- *)
\* read() returned rows and read_complete() returned none, the merge is next
IncrementalOnly == pc = "merge" /\ df # <<>> /\ df_complete = <<>>

\* the merge keeps every incremental row, location and vaccine attached
MergeOfIncrementalOnly ==
    IncrementalOnly => (pc' = "export_datafile" /\ df_merged' = pipeline(df))

\* C15: when read_complete() returns no rows and read() returns at least one,
\* export() does not end in an error: the merge hands export_datafile exactly
\* the rows of read(), with location and vaccine attached.
C15_IncrementalOnlyExports == [][MergeOfIncrementalOnly]_vars

(* ------------------------- the two-group counts ------------------------ *)
\* the whole number v is a nearest one to num / den
Nearest(v, num, den) ==
    /\ 2 * (v * den - num) <= den
    /\ 2 * (num - v * den) <= den

\* C16: the count _estimate_metric gives for the groups big and small is
\* big * 1e8 + small * 1e4 rounded to the nearest whole number (here big is
\* whole, so it is small * 1e4 that is rounded); the groups 3 and 1500 give
\* 315000000.
C16_EstimateIsRounded ==
    /\ _estimate_metric(Numeral(3), Numeral(1500)) = 315000000
    /\ pc = "estimated" =>
        LET big == elem_text.doses[1]
            small == elem_text.doses[2]
            v == records[1].total_vaccinations
        IN  Nearest(v - (big[1] \div big[2]) * 100000000, small[1] * 10000, small[2])

(* ------------------------- the dataset over runs ----------------------- *)
\* a step of export() loses no date of the dataset and does not lower its
\* latest date
KeepsHistory ==
    /\ DateSet(dataset) \subseteq DateSet(dataset')
    /\ load_watermark(dataset') >= load_watermark(dataset)

\* C19: a run of export(), from whatever dataset is on file and however it
\* ends, leaves every date the dataset had before it and does not lower the
\* latest date; a run that ends in an error leaves the dataset as it was. The
\* dataset a run leaves is the one the next run starts from, so the same holds
\* over any sequence of runs.
C19_HistoryNeverShrinks ==
    /\ [][KeepsHistory]_vars
    /\ [](/\ DateSet(dataset0) \subseteq DateSet(dataset)
          /\ load_watermark(dataset) >= load_watermark(dataset0))
    /\ [](pc = "error" => dataset = dataset0)

\* C19 witness: export() has written a frame that has a newer date than the
\* file had and lacks a date of the file, which is in the dataset still
C19_Witness ==
    /\ pc = "done"
    /\ df_merged # <<>>
    /\ \E d \in DateSet(dataset0) : d \notin DateSet(df_merged) /\ d \in DateSet(dataset)
    /\ load_watermark(dataset) > load_watermark(dataset0)

(* ------------------------ the date of a bulletin ----------------------- *)
\* C20: the row of an incremental page and the row of a complete page that
\* report the same calendar day carry the same date, whatever the year, so the
\* merge keeps the complete row alone for that day.
C20_SameDaySameDate ==
    pc = "parsed_day" =>
        /\ data[1].date = extract_clean_date(listing[1])
        /\ records[1].date = data[1].date
        /\ merge(data, records) = pipeline(records)

(* ----------------------- the walk comes to an end ---------------------- *)
\* export() is inside read()
InRead == pc \in {"read", "read_get", "read_for", "read_return"}

\* read() has returned or has raised
ReadEnded == "read" \in returned \/ pc = "error"

\* C17: on any listing, the dates in any order, read() comes to an end; while
\* it walks, the urls navigated to are the index and then the listed links in
\* listing order, each at most once, one per turn of the loop; it leaves the
\* loop at a page whose date is at or before the watermark, or after the last
\* link.
C17_ReadTerminates ==
    /\ [](InWalk =>
            /\ Len(nav) = (IF pc = "read_return" THEN i + 1 ELSE i)
            /\ Len(nav) <= Len(links) + 1
            /\ nav = SubSeq(WalkTo(Len(links)), 1, Len(nav))
            /\ pc = "read_return" =>
                    AlreadyKnown(extract_clean_date(listing[i]), last_update))
    /\ InRead ~> ReadEnded

\* C17 witness: a listing of three pages that is not newest-first was walked
\* to its last link, each page navigated to once, and read() is about to return
C17_Witness ==
    /\ pc = "read_for"
    /\ Len(listing) = 3
    /\ i = 4
    /\ ~NewestFirst(listing)
    /\ nav = WalkTo(3)

(* ------------------------ listings in any order ------------------------ *)
\* the n-th listed page carries a date at or before the watermark
Known(n) ==
    listing[n] # NoMatch /\ extract_clean_date(listing[n]) <= last_update

\* the position of the first such page, or the one past the last link
FirstKnown ==
    IF \E n \in 1..Len(listing) : Known(n)
    THEN CHOOSE n \in 1..Len(listing) :
            Known(n) /\ \A m \in 1..(n - 1) : ~Known(m)
    ELSE Len(listing) + 1

\* C18: whatever the order of the listing, every row read() returns has a
\* date after the watermark, and the rows returned are those of the listed
\* pages before the first page dated at or before the watermark, in order.
C18_ReadReturnsPrefixAboveWatermark ==
    [][ReadReturns =>
        /\ \A n \in 1..Len(df') : df'[n].date > last_update
        /\ DatesAndUrls(df')
            = [n \in 1..(FirstKnown - 1) |->
                    <<extract_clean_date(listing[n]), Href(n)>>]]_vars

\* C18 witness: the walk stopped at the second of three pages, and the third,
\* which it never reaches, is newer than the watermark
C18_Witness ==
    /\ pc = "read_return"
    /\ Len(listing) = 3
    /\ i = 2
    /\ Len(data) = 1
    /\ listing[3] # NoMatch
    /\ extract_clean_date(listing[3]) > last_update

====
